---- MODULE Spec2Model ----
(***************************************************************************)
(* Model of humans_for_housing_video_player/main.py: the main thread, the   *)
(* two worker threads of the kiosk video player and the queue between      *)
(* them.                                                                   *)
(*                                                                         *)
(*   main                  prints the banner, looks for the two clips,     *)
(*                         exits when one is missing, otherwise builds     *)
(*                         the window and the player, starts the workers   *)
(*                         and sits in the Tk main loop;                   *)
(*   input_reader_thread   finds the keyboards, grabs them, and turns      *)
(*                         every "space pressed" report into a timestamp   *)
(*                         put on event_queue;                             *)
(*   video_control_thread  takes timestamps from event_queue (0.1 s        *)
(*                         timeout) and polls the VLC player's state to    *)
(*                         switch between the looping and the trigger      *)
(*                         video.                                          *)
(*                                                                         *)
(* The devices and the VLC player are the environment: reports arrive on   *)
(* the keyboards, a playing clip may end or fail at any moment.            *)
(***************************************************************************)
EXTENDS Naturals, Sequences, FiniteSets

\* Total number of reports the devices emit in one run (bounds the model).
MaxReports == 3

\* How many reports a device that keeps emitting may hold unread before it
\* pauses (bounds the model).
MaxBuffered == 1

\* evdev's keystate of a key-down report (0 = up, 1 = down, 2 = hold).
KeyDown == 1

VARIABLES
    present,          \* input devices that exist under /dev/input
    pending,          \* per device: reports in the kernel buffer, not yet read
    nreports,         \* number of reports emitted so far
    ipc,              \* input_reader_thread: where it is
    devices,          \* input_reader_thread: its list `devices`
    grabbed,          \* devices this process holds an exclusive grab on
    closed,           \* devices whose handle was closed
    ready,            \* the part of select's result `r` still to be processed
    queue,            \* event_queue
    sent,             \* history: the timestamps put on event_queue, in order
    received,         \* history: the timestamps got from event_queue, in order
    cpc,              \* video_control_thread: where it is
    playing_trigger,  \* video_control_thread: its flag `playing_trigger`
    media,            \* the media the player holds (set_media)
    pstate,           \* the player's state (vlc.State)
    step,             \* history: the last step of video_control_thread
    rfail,            \* history: the device whose read raised in this cycle
    mpc,              \* main: where it is
    clips,            \* main: whether looping_video / trigger_video were found
    exitcode,         \* the status main ends the process with (once exited)
    out,              \* what main has printed, in order
    mainCalls         \* history: the player calls main made after the start

vars == <<present, pending, nreports, ipc, devices, grabbed, closed, ready,
          queue, sent, received, cpc, playing_trigger, media,
          pstate, step, rfail, mpc, clips, exitcode, out, mainCalls>>

inputVars == <<ipc, devices, grabbed, closed, ready, rfail>>
mainVars == <<mpc, clips, exitcode, out, mainCalls>>
ctrlVars == <<cpc, playing_trigger, step>>
playerVars == <<media, pstate>>

Range(s) == {s[i] : i \in 1..Len(s)}

IsPrefix(s, t) ==
    /\ Len(s) <= Len(t)
    /\ \A i \in 1..Len(s) : s[i] = t[i]

----------------------------------------------------------------------------
(* Devices and their reports *)

\* The order in which list_devices() names the devices.
DeviceList == <<"kbdA", "kbdB", "mouse">>

AllDevices == Range(DeviceList)

\* device.capabilities().get(ecodes.EV_KEY, [])
Capabilities(d) ==
    IF d = "mouse" THEN {"BTN_LEFT"} ELSE {"KEY_SPACE", "KEY_A"}

SpacePress == [type |-> "EV_KEY", keycode |-> {"KEY_SPACE"}, keystate |-> 1]
SpaceRelease == [type |-> "EV_KEY", keycode |-> {"KEY_SPACE"}, keystate |-> 0]
OtherPress == [type |-> "EV_KEY", keycode |-> {"KEY_A"}, keystate |-> 1]
NonKey == [type |-> "EV_REL", keycode |-> {}, keystate |-> 0]

ReportKinds == {SpacePress, SpaceRelease, OtherPress, NonKey}

\* find_keyboard_devices: the devices with KEY_SPACE capability, in order.
find_keyboard_devices(p) ==
    SelectSeq(DeviceList,
              LAMBDA d : d \in p /\ "KEY_SPACE" \in Capabilities(d))

\* Faulty variants of IsSpacePress: any report of the space key counts; the
\* key's name is compared with the keycode as a whole.
IsSpacePress_AnyState(rep) ==
    /\ rep.type = "EV_KEY"
    /\ "KEY_SPACE" \in rep.keycode

IsSpacePress_SingleName(rep) ==
    /\ rep.type = "EV_KEY"
    /\ rep.keycode = {"KEY_SPACE"}
    /\ rep.keystate = KeyDown

\* process_device_events' test of one report: a key report, space, pressed.
IsSpacePress(rep) ==
    /\ rep.type = "EV_KEY"
    /\ "KEY_SPACE" \in rep.keycode
    /\ rep.keystate = KeyDown

----------------------------------------------------------------------------
(* event_queue: queue.Queue() *)

\* Line 62: put adds the item at the end.
QueuePut(q, e) == Append(q, e)

\* A faulty get: the newest item first.
QueueGet_Lifo(q) == [item |-> q[Len(q)], rest |-> SubSeq(q, 1, Len(q) - 1)]

\* Line 175: get takes the oldest item.
QueueGet(q) == [item |-> Head(q), rest |-> Tail(q)]

\* What is put on the queue is a timestamp, datetime.now(), modelled by the
\* number of the put. The fields dev (the device the press came from) and
\* during (playing_trigger at the moment of the put) are history tags: the
\* program never reads them.
Event(n, d, pt) == [ts |-> n, dev |-> d, during |-> pt]

NoEvent == [ts |-> 0, dev |-> "none", during |-> FALSE]

Times(q) == [i \in 1..Len(q) |-> q[i].ts]

----------------------------------------------------------------------------
(* The VLC player *)

\* What the calls the controller makes do to the player: set_media changes
\* the media held, play starts it, stop stops it. Opening and buffering are
\* not told apart from playing; from Playing the player goes to Ended or to
\* Error on its own (PlayerEnds, PlayerFails below).
PlayerCall(p, c) ==
    CASE c = "stop" -> [p EXCEPT !.state = "Stopped"]
      [] c = "set_media_loop" -> [p EXCEPT !.media = "loop"]
      [] c = "set_media_trigger" -> [p EXCEPT !.media = "trigger"]
      [] c = "play" -> [p EXCEPT !.state = "Playing"]

RECURSIVE PlayerCalls(_, _)
PlayerCalls(p, cs) ==
    IF cs = <<>> THEN p ELSE PlayerCalls(PlayerCall(p, Head(cs)), Tail(cs))

Player == [media |-> media, state |-> pstate]

\* The player after the calls cs, as the next values of media and pstate.
Issue(cs) ==
    /\ media' = PlayerCalls(Player, cs).media
    /\ pstate' = PlayerCalls(Player, cs).state

----------------------------------------------------------------------------
(* video_control_thread's decisions *)

\* Faulty variants of HandleEvent: the flag is not set; the guard is
\* missing; play() is called again while the trigger clip plays.
HandleEvent_NoFlag(pt) ==
    IF ~pt
    THEN [calls |-> <<"stop", "set_media_trigger", "play">>, pt |-> pt]
    ELSE [calls |-> <<>>, pt |-> pt]

HandleEvent_NoGuard(pt) ==
    [calls |-> <<"stop", "set_media_trigger", "play">>, pt |-> TRUE]

HandleEvent_Replays(pt) ==
    IF ~pt
    THEN [calls |-> <<"stop", "set_media_trigger", "play">>, pt |-> TRUE]
    ELSE [calls |-> <<"play">>, pt |-> pt]

\* Lines 177-182: what a dequeued event does, given playing_trigger: the
\* player calls made and the new value of playing_trigger.
HandleEvent(pt) ==
    IF ~pt
    THEN [calls |-> <<"stop", "set_media_trigger", "play">>, pt |-> TRUE]
    ELSE [calls |-> <<>>, pt |-> pt]

\* Faulty variants of HandleState: the flag is not cleared; the loop clip is
\* not reloaded in Idle; Error is treated like Ended.
HandleState_KeepFlag(state, pt) ==
    IF state = "Ended"
    THEN [calls |-> <<"set_media_loop", "play">>, pt |-> pt, brk |-> FALSE]
    ELSE IF state = "Error"
         THEN [calls |-> <<>>, pt |-> pt, brk |-> TRUE]
         ELSE [calls |-> <<>>, pt |-> pt, brk |-> FALSE]

HandleState_IdleNoReload(state, pt) ==
    IF state = "Ended"
    THEN IF pt
         THEN [calls |-> <<"set_media_loop", "play">>, pt |-> FALSE,
               brk |-> FALSE]
         ELSE [calls |-> <<>>, pt |-> pt, brk |-> FALSE]
    ELSE IF state = "Error"
         THEN [calls |-> <<>>, pt |-> pt, brk |-> TRUE]
         ELSE [calls |-> <<>>, pt |-> pt, brk |-> FALSE]

HandleState_ErrorRetries(state, pt) ==
    IF state \in {"Ended", "Error"}
    THEN [calls |-> <<"set_media_loop", "play">>, pt |-> FALSE, brk |-> FALSE]
    ELSE [calls |-> <<>>, pt |-> pt, brk |-> FALSE]

\* Lines 192-208: what the polled player state does, given playing_trigger:
\* the player calls made, the new value of playing_trigger, and whether the
\* loop is left.
HandleState(state, pt) ==
    IF state = "Ended"
    THEN IF pt
         THEN [calls |-> <<"set_media_loop", "play">>, pt |-> FALSE,
               brk |-> FALSE]
         ELSE [calls |-> <<"set_media_loop", "play">>, pt |-> pt,
               brk |-> FALSE]
    ELSE IF state = "Error"
         THEN [calls |-> <<>>, pt |-> pt, brk |-> TRUE]
         ELSE [calls |-> <<>>, pt |-> pt, brk |-> FALSE]

\* The history record of a controller step: the operation, the event taken
\* (if any), the player state seen (if polled), playing_trigger before the
\* step, and the player calls made.
NoStep == [op |-> "none", ev |-> NoEvent, seen |-> "none", was |-> FALSE,
           calls |-> <<>>]

----------------------------------------------------------------------------
(* main: the clips and the start-up *)

\* What ~/movies may hold: the name of each entry, the words its upper-cased
\* name contains, and whether it is a regular file. iterdir() yields the
\* entries that exist in this order.
Entries ==
    << [name |-> "LOOP.mp4", words |-> {"LOOP"}, is_file |-> TRUE],
       [name |-> "loop_trigger.mp4", words |-> {"LOOP", "TRIGGER"},
        is_file |-> TRUE],
       [name |-> "Trigger.mov", words |-> {"TRIGGER"}, is_file |-> TRUE],
       [name |-> "notes.txt", words |-> {}, is_file |-> TRUE],
       [name |-> "loops", words |-> {"LOOP"}, is_file |-> FALSE] >>

EntryNames == {Entries[i].name : i \in 1..Len(Entries)}

\* ~/movies: absent, or a directory with some of the entries.
DirChoices ==
    {[exists |-> FALSE, names |-> {}]} \cup
    {[exists |-> TRUE, names |-> ns] : ns \in SUBSET EntryNames}

\* The directory main finds in the runs that start with the workers running.
ClipsDir == [exists |-> TRUE, names |-> {"LOOP.mp4", "Trigger.mov"}]

Banner == "Hello from humans-for-housing-video-player!"

\* Lines 30-40: the loop over the directory; the last match of each kind
\* wins, and a name with both words counts as the looping video.
RECURSIVE ScanEntries(_, _)
ScanEntries(es, acc) ==
    IF es = <<>> THEN acc
    ELSE IF ~Head(es).is_file THEN ScanEntries(Tail(es), acc)
    ELSE IF "LOOP" \in Head(es).words
         THEN ScanEntries(Tail(es),
                  [acc EXCEPT !.looping = Head(es).name,
                              !.out = Append(@, "[Video] Found looping video")])
    ELSE IF "TRIGGER" \in Head(es).words
         THEN ScanEntries(Tail(es),
                  [acc EXCEPT !.trigger = Head(es).name,
                              !.out = Append(@, "[Video] Found trigger video")])
    ELSE ScanEntries(Tail(es), acc)

\* Lines 14-42: the two paths ("None" when not found) and what is printed.
find_video_files(dir) ==
    IF ~dir.exists
    THEN [looping |-> "None", trigger |-> "None",
          out |-> <<"[Video] Warning: Movies directory not found">>]
    ELSE ScanEntries(SelectSeq(Entries, LAMBDA e : e.name \in dir.names),
                     [looping |-> "None", trigger |-> "None", out |-> <<>>])

\* Faulty variants of Startup: the banner is printed after the search; a
\* missing trigger clip is not checked.
Startup_BannerLate(dir) ==
    LET found == find_video_files(dir)
        res == [looping |-> found.looping # "None",
                trigger |-> found.trigger # "None"]
    IN  IF found.looping = "None"
        THEN [clips |-> res, run |-> FALSE, exit |-> 1,
              out |-> found.out \o
                      <<Banner, "ERROR: No LOOP video found in ~/movies">>]
        ELSE IF found.trigger = "None"
        THEN [clips |-> res, run |-> FALSE, exit |-> 1,
              out |-> found.out \o
                      <<Banner, "ERROR: No TRIGGER video found in ~/movies">>]
        ELSE [clips |-> res, run |-> TRUE, exit |-> 0,
              out |-> found.out \o
                      <<Banner, "[Main] Embedded VLC into window ID",
                        "All threads started.">>]

Startup_TriggerUnchecked(dir) ==
    LET found == find_video_files(dir)
        res == [looping |-> found.looping # "None",
                trigger |-> found.trigger # "None"]
    IN  IF found.looping = "None"
        THEN [clips |-> res, run |-> FALSE, exit |-> 1,
              out |-> <<Banner>> \o found.out \o
                      <<"ERROR: No LOOP video found in ~/movies">>]
        ELSE [clips |-> res, run |-> TRUE, exit |-> 0,
              out |-> <<Banner>> \o found.out \o
                      <<"[Main] Embedded VLC into window ID",
                        "All threads started.">>]

\* Lines 216-284: main up to the main loop, for the directory dir: whether
\* each clip was found, whether the workers are started, the status of the
\* exit otherwise, and what is printed.
Startup(dir) ==
    LET found == find_video_files(dir)
        res == [looping |-> found.looping # "None",
                trigger |-> found.trigger # "None"]
    IN  IF found.looping = "None"
        THEN [clips |-> res, run |-> FALSE, exit |-> 1,
              out |-> <<Banner>> \o found.out \o
                      <<"ERROR: No LOOP video found in ~/movies">>]
        ELSE IF found.trigger = "None"
        THEN [clips |-> res, run |-> FALSE, exit |-> 1,
              out |-> <<Banner>> \o found.out \o
                      <<"ERROR: No TRIGGER video found in ~/movies">>]
        ELSE [clips |-> res, run |-> TRUE, exit |-> 0,
              out |-> <<Banner>> \o found.out \o
                      <<"[Main] Embedded VLC into window ID",
                        "All threads started.">>]

----------------------------------------------------------------------------
\* The state in which main has found both clips and has just started the
\* two workers.
Init ==
    /\ present \in {{"mouse"}, {"mouse", "kbdA"}, {"mouse", "kbdA", "kbdB"}}
    /\ pending = [d \in AllDevices |-> <<>>]
    /\ nreports = 0
    /\ ipc = "start"
    /\ devices = <<>>
    /\ grabbed = {}
    /\ closed = {}
    /\ ready = <<>>
    /\ queue = <<>>
    /\ sent = <<>>
    /\ received = <<>>
    /\ cpc = "start"
    /\ playing_trigger = FALSE
    /\ media = "none"
    /\ pstate = "NothingSpecial"
    /\ step = NoStep
    /\ rfail = "none"
    /\ mpc = "mainloop"
    /\ clips = [looping |-> TRUE, trigger |-> TRUE]
    /\ exitcode = 0
    /\ out = Startup(ClipsDir).out
    /\ mainCalls = <<>>

----------------------------------------------------------------------------
(* The environment *)

\* A device this process holds open emits one report, which the kernel
\* buffers for the handle until the reader thread reads it.
DeviceReport(d, rep) ==
    /\ nreports < MaxReports
    /\ ipc \notin {"returned", "exited"}
    /\ d \in Range(devices) \ closed
    /\ pending' = [pending EXCEPT ![d] = Append(@, rep)]
    /\ nreports' = nreports + 1
    /\ UNCHANGED <<mainVars, present, inputVars, queue, sent, received,
                   ctrlVars, playerVars>>

\* The clip being played reaches its end.
PlayerEnds ==
    /\ pstate = "Playing"
    /\ pstate' = "Ended"
    /\ UNCHANGED <<mainVars, present, pending, nreports, inputVars, queue, sent,
                   received, ctrlVars, media>>

\* The player fails.
PlayerFails ==
    /\ pstate = "Playing"
    /\ pstate' = "Error"
    /\ UNCHANGED <<mainVars, present, pending, nreports, inputVars, queue, sent,
                   received, ctrlVars, media>>

----------------------------------------------------------------------------
(* input_reader_thread *)

\* A faulty start: no return when no keyboard was found.
InputStart_NoReturn ==
    /\ ipc = "start"
    /\ devices' = find_keyboard_devices(present)
    /\ \E ok \in SUBSET Range(devices') : grabbed' = ok
    /\ ipc' = "select"
    /\ UNCHANGED <<mainVars, present, pending, nreports, closed, ready,
                   rfail, queue, sent, received, ctrlVars, playerVars>>

\* Lines 95-121: discovery; return when no keyboard was found; otherwise
\* try to grab every device (a grab that fails is only logged) and go on
\* to the select loop.
InputStart ==
    /\ ipc = "start"
    /\ devices' = find_keyboard_devices(present)
    /\ IF devices' = <<>>
       THEN /\ ipc' = "returned"
            /\ UNCHANGED grabbed
       ELSE /\ \E ok \in SUBSET Range(devices') : grabbed' = ok
            /\ ipc' = "select"
    /\ UNCHANGED <<mainVars, present, pending, nreports, closed, ready,
                   rfail, queue, sent, received, ctrlVars, playerVars>>

\* A faulty select: only the devices that were grabbed are waited on.
Readable_GrabbedOnly ==
    SelectSeq(devices, LAMBDA d : d \in grabbed /\ pending[d] # <<>>)

\* select.select(devices, [], []): the devices that have something to read.
Readable == SelectSeq(devices, LAMBDA d : pending[d] # <<>>)

\* Line 126: block until a device is readable.
InputSelect ==
    /\ ipc = "select"
    /\ Readable # <<>>
    /\ ready' = Readable
    /\ ipc' = "drain"
    /\ UNCHANGED <<mainVars, present, pending, nreports, devices, grabbed,
                   closed, rfail, queue, sent, received, ctrlVars,
                   playerVars>>

\* Lines 141-146: ungrab and close each device. ungrab raises on a device
\* that is not grabbed, and close is then skipped for it.
ClosedByCleanup == {d \in Range(devices) : d \in grabbed}

\* Lines 126, 137-146: select itself raises; the outer handler logs it and
\* the finally clause cleans up; the thread ends.
InputError ==
    /\ ipc = "select"
    /\ closed' = ClosedByCleanup
    /\ grabbed' = {}
    /\ ipc' = "exited"
    /\ UNCHANGED <<mainVars, present, pending, nreports, devices, ready,
                   rfail, queue, sent, received, ctrlVars, playerVars>>

\* Where the loop over r goes on: the next ready device, or select again.
AfterDevice(r) == IF r = <<>> THEN "select" ELSE "drain"

\* What process_device_events puts for the reports reps of device d: one
\* timestamp per space press, in the order of the reports.
NewEvents(d, reps) ==
    [i \in 1..Len(SelectSeq(reps, IsSpacePress)) |->
        Event(Len(sent) + i, d, playing_trigger)]

RECURSIVE PutAll(_, _)
PutAll(q, es) ==
    IF es = <<>> THEN q ELSE PutAll(QueuePut(q, Head(es)), Tail(es))

\* Lines 45-66: device.read() returns everything the device holds; every
\* space press among it is put on the queue with its timestamp.
process_device_events(d) ==
    /\ pending' = [pending EXCEPT ![d] = <<>>]
    /\ queue' = PutAll(queue, NewEvents(d, pending[d]))
    /\ sent' = sent \o Times(NewEvents(d, pending[d]))

\* A faulty drain: after the first device of r the thread waits again.
InputDrain_FirstOnly ==
    /\ ipc = "drain"
    /\ ready # <<>>
    /\ process_device_events(Head(ready))
    /\ ready' = <<>>
    /\ ipc' = "select"
    /\ rfail' = "none"
    /\ UNCHANGED <<mainVars, present, nreports, devices, grabbed, closed,
                   received, ctrlVars, playerVars>>

\* Lines 128-130: the next device of r is drained.
InputDrain ==
    /\ ipc = "drain"
    /\ ready # <<>>
    /\ process_device_events(Head(ready))
    /\ ready' = Tail(ready)
    /\ ipc' = AfterDevice(ready')
    /\ rfail' = IF ready' = <<>> THEN "none" ELSE rfail
    /\ UNCHANGED <<mainVars, present, nreports, devices, grabbed, closed,
                   received, ctrlVars, playerVars>>

\* A faulty handling of a read that raises: the rest of r is given up, as
\* if the handler were around the loop over r.
InputReadFail_SkipsRest ==
    /\ ipc = "drain"
    /\ ready # <<>>
    /\ ready' = <<>>
    /\ ipc' = "select"
    /\ rfail' = "none"
    /\ UNCHANGED <<mainVars, present, pending, nreports, devices, grabbed,
                   closed, queue, sent, received, ctrlVars, playerVars>>

\* Lines 129-135: device.read() raises; logged, on to the next device.
\* rfail remembers the device until the loop over r is through.
InputReadFail ==
    /\ ipc = "drain"
    /\ ready # <<>>
    /\ ready' = Tail(ready)
    /\ ipc' = AfterDevice(ready')
    /\ rfail' = IF ready' = <<>> THEN "none" ELSE Head(ready)
    /\ UNCHANGED <<mainVars, present, pending, nreports, devices, grabbed,
                   closed, queue, sent, received, ctrlVars, playerVars>>

InputReader ==
    \/ InputStart
    \/ InputSelect
    \/ InputError
    \/ InputDrain
    \/ InputReadFail

----------------------------------------------------------------------------
(* video_control_thread *)

\* Lines 159-170: load and play the looping video.
CtrlStart ==
    /\ cpc = "start"
    /\ Issue(<<"set_media_loop", "play">>)
    /\ playing_trigger' = FALSE
    /\ step' = [op |-> "start", ev |-> NoEvent, seen |-> "none",
                was |-> playing_trigger,
                calls |-> <<"set_media_loop", "play">>]
    /\ cpc' = "get"
    /\ UNCHANGED <<mainVars, present, pending, nreports, inputVars, queue, sent,
                   received>>

\* Faulty variants of CtrlGet: a get without timeout, which blocks while the
\* queue is empty; a get on another queue, which never yields an event.
CtrlGet_NeverTimesOut ==
    /\ cpc = "get"
    /\ queue # <<>>
    /\ queue' = QueueGet(queue).rest
    /\ received' = Append(received, QueueGet(queue).item.ts)
    /\ Issue(HandleEvent(playing_trigger).calls)
    /\ playing_trigger' = HandleEvent(playing_trigger).pt
    /\ step' = [op |-> "get", ev |-> QueueGet(queue).item,
                seen |-> "none", was |-> playing_trigger,
                calls |-> HandleEvent(playing_trigger).calls]
    /\ cpc' = "poll"
    /\ UNCHANGED <<mainVars, present, pending, nreports, inputVars, sent>>

CtrlGet_WrongQueue ==
    /\ cpc = "get"
    /\ step' = [op |-> "get", ev |-> NoEvent, seen |-> "none",
                was |-> playing_trigger, calls |-> <<>>]
    /\ cpc' = "poll"
    /\ UNCHANGED <<mainVars, present, pending, nreports, inputVars, queue, sent,
                   received, playing_trigger, playerVars>>

\* Lines 173-186: event_queue.get(timeout=0.1); an event, or queue.Empty.
CtrlGet ==
    /\ cpc = "get"
    /\ IF queue # <<>>
       THEN /\ queue' = QueueGet(queue).rest
            /\ received' = Append(received, QueueGet(queue).item.ts)
            /\ Issue(HandleEvent(playing_trigger).calls)
            /\ playing_trigger' = HandleEvent(playing_trigger).pt
            /\ step' = [op |-> "get", ev |-> QueueGet(queue).item,
                        seen |-> "none", was |-> playing_trigger,
                        calls |-> HandleEvent(playing_trigger).calls]
       ELSE /\ step' = [op |-> "get", ev |-> NoEvent, seen |-> "none",
                        was |-> playing_trigger, calls |-> <<>>]
            /\ UNCHANGED <<queue, received, playing_trigger, playerVars>>
    /\ cpc' = "poll"
    /\ UNCHANGED <<mainVars, present, pending, nreports, inputVars, sent>>

\* Lines 191-210: get_state(); reload on Ended, leave the loop on Error.
CtrlPoll ==
    /\ cpc = "poll"
    /\ Issue(HandleState(pstate, playing_trigger).calls)
    /\ playing_trigger' = HandleState(pstate, playing_trigger).pt
    /\ step' = [op |-> "poll", ev |-> NoEvent, seen |-> pstate,
                was |-> playing_trigger,
                calls |-> HandleState(pstate, playing_trigger).calls]
    /\ cpc' = IF HandleState(pstate, playing_trigger).brk
              THEN "exit" ELSE "get"
    /\ UNCHANGED <<mainVars, present, pending, nreports, inputVars, queue, sent,
                   received>>

\* Line 212: vlc_player.stop() after the loop.
CtrlExit ==
    /\ cpc = "exit"
    /\ Issue(<<"stop">>)
    /\ step' = [op |-> "exit", ev |-> NoEvent, seen |-> "none",
                was |-> playing_trigger, calls |-> <<"stop">>]
    /\ cpc' = "done"
    /\ UNCHANGED <<mainVars, present, pending, nreports, inputVars, queue, sent,
                   received, playing_trigger>>

VideoControl ==
    \/ CtrlStart
    \/ CtrlGet
    \/ CtrlPoll
    \/ CtrlExit

----------------------------------------------------------------------------
Next ==
    \/ \E d \in AllDevices, rep \in ReportKinds : DeviceReport(d, rep)
    \/ PlayerEnds
    \/ PlayerFails
    \/ InputReader
    \/ VideoControl

Spec == Init /\ [][Next]_vars

\* The controller thread is scheduled again and again: each of its steps
\* (a get with a timeout, a state query, a stop) returns.
FairSpec == Spec /\ WF_vars(VideoControl)

----------------------------------------------------------------------------
(* main *)

\* The process from its start: nothing printed, no worker started.
MainInit ==
    /\ present \in {{"mouse"}, {"mouse", "kbdA"}}
    /\ pending = [d \in AllDevices |-> <<>>]
    /\ nreports = 0
    /\ ipc = "unstarted"
    /\ devices = <<>>
    /\ grabbed = {}
    /\ closed = {}
    /\ ready = <<>>
    /\ queue = <<>>
    /\ sent = <<>>
    /\ received = <<>>
    /\ cpc = "unstarted"
    /\ playing_trigger = FALSE
    /\ media = "none"
    /\ pstate = "NothingSpecial"
    /\ step = NoStep
    /\ rfail = "none"
    /\ mpc = "start"
    /\ clips = [looping |-> FALSE, trigger |-> FALSE]
    /\ exitcode = 0
    /\ out = <<>>
    /\ mainCalls = <<>>

\* Lines 216-284: the banner, find_video_files, sys.exit(1) when a clip is
\* missing; otherwise the window, the player, the queue and the two daemon
\* threads, which are started before main enters the main loop.
MainStartup ==
    /\ mpc = "start"
    /\ \E dir \in DirChoices :
         /\ clips' = Startup(dir).clips
         /\ out' = Startup(dir).out
         /\ IF Startup(dir).run
            THEN /\ mpc' = "mainloop"
                 /\ ipc' = "start"
                 /\ cpc' = "start"
                 /\ UNCHANGED exitcode
            ELSE /\ mpc' = "exited"
                 /\ exitcode' = Startup(dir).exit
                 /\ UNCHANGED <<ipc, cpc>>
    /\ UNCHANGED <<present, pending, nreports, devices, grabbed, closed,
                   ready, rfail, queue, sent, received, playing_trigger,
                   step, playerVars, mainCalls>>

\* Lines 286-292: root.mainloop() is left, by Ctrl+C (KeyboardInterrupt,
\* caught: main will return normally) or by an error (the window is gone or
\* the loop raises: main will end with a traceback); the finally clause
\* begins with vlc_player.stop(), called by the main thread.
MainShutdown(how) ==
    /\ mpc = "mainloop"
    /\ out' = IF how = "interrupt" THEN Append(out, "Shutting down...")
              ELSE out
    /\ exitcode' = IF how = "interrupt" THEN 0 ELSE 1
    /\ Issue(<<"stop">>)
    /\ mainCalls' = Append(mainCalls, "stop")
    /\ mpc' = "release"
    /\ UNCHANGED <<present, pending, nreports, inputVars, queue, sent,
                   received, ctrlVars, clips>>

\* Line 293: vlc_player.release(), called by the main thread.
MainRelease ==
    /\ mpc = "release"
    /\ pstate' = "Released"
    /\ mainCalls' = Append(mainCalls, "release")
    /\ mpc' = "return"
    /\ UNCHANGED <<present, pending, nreports, inputVars, queue, sent,
                   received, ctrlVars, media, clips, exitcode, out>>

\* A daemon thread that has not ended by itself ends with the process.
Killed(pc) ==
    IF pc \in {"unstarted", "returned", "exited", "done"} THEN pc
    ELSE "killed"

\* The process ends with the status code: the workers end with it, and the
\* system closes the handles and drops the grabs the process held.
ProcessExit(code) ==
    /\ mpc' = "exited"
    /\ exitcode' = code
    /\ ipc' = Killed(ipc)
    /\ cpc' = Killed(cpc)
    /\ closed' = Range(devices)
    /\ grabbed' = {}
    /\ UNCHANGED <<present, pending, nreports, devices, ready, rfail, queue,
                   sent, received, playing_trigger, step, playerVars, clips,
                   out, mainCalls>>

\* Line 294 and the end of main: root.destroy(), then the interpreter exits
\* with the status main's way out decided.
MainReturn ==
    /\ mpc = "return"
    /\ ProcessExit(exitcode)

\* The controller thread is still running when main has released the
\* player: its next call uses a freed player. The call may go through (the
\* controller's own actions) or bring the process down with a signal.
UseAfterRelease ==
    /\ mpc = "return"
    /\ pstate = "Released"
    /\ cpc \in {"start", "get", "poll", "exit"}
    /\ ProcessExit(139)

MainThread ==
    \/ MainStartup
    \/ \E how \in {"interrupt", "error"} : MainShutdown(how)
    \/ MainRelease
    \/ MainReturn

MainNext ==
    \/ MainThread
    \/ UseAfterRelease
    \/ Next

MainSpec == MainInit /\ [][MainNext]_vars

\* The threads are scheduled again and again; whether the main loop is ever
\* left is up to the user.
MainFairSpec ==
    /\ MainSpec
    /\ WF_vars(VideoControl)
    /\ WF_vars(MainStartup \/ MainRelease \/ MainReturn)

----------------------------------------------------------------------------
(* Properties *)

TriggerLoad == <<"stop", "set_media_trigger", "play">>
LoopReload == <<"set_media_loop", "play">>

\* A step of video_control_thread (each one moves cpc).
CtrlStep == cpc' # cpc
\* The step takes an event from the queue.
Dequeues == received' # received
\* The step is the poll of the player's state.
Polls == cpc = "poll" /\ CtrlStep
\* The last step of the controller took an event from the queue.
GotEvent == step.op = "get" /\ step.ev # NoEvent
\* The calls cs load the trigger clip.
LoadsTrigger(cs) == "set_media_trigger" \in Range(cs)

\* C1: a dequeue while Idle stops the player, loads the trigger clip and
\* plays it, and PlaybackState becomes Triggered; PlaybackState goes from
\* Idle to Triggered in no other step.
C1_IdleEventStartsTrigger ==
    [][ /\ (Dequeues /\ ~playing_trigger) =>
              /\ step'.calls = TriggerLoad
              /\ media' = "trigger"
              /\ pstate' = "Playing"
              /\ playing_trigger'
        /\ (~playing_trigger /\ playing_trigger') =>
              (cpc = "get" /\ Dequeues) ]_vars

C1_Witness ==
    /\ GotEvent
    /\ ~step.was
    /\ playing_trigger
    /\ media = "trigger"
    /\ pstate = "Playing"

\* C2: the first event dequeued moves the controller to Triggered; an event
\* dequeued while Triggered makes no player call and leaves PlaybackState
\* and the player as they are; the trigger clip is only ever loaded from
\* Idle, so it is not restarted while PlaybackState is Triggered.
C2_EventsIgnoredWhileTriggered ==
    [][ /\ (received = <<>> /\ Dequeues) =>
              (playing_trigger' /\ LoadsTrigger(step'.calls))
        /\ (Dequeues /\ playing_trigger) =>
              /\ step'.calls = <<>>
              /\ playing_trigger'
              /\ UNCHANGED <<media, pstate>>
        /\ (CtrlStep /\ LoadsTrigger(step'.calls)) => ~playing_trigger ]_vars

\* The third event is dequeued and dropped while the trigger clip plays.
C2_Witness ==
    /\ GotEvent
    /\ step.was
    /\ step.ev.during
    /\ step.calls = <<>>
    /\ Len(received) = 3
    /\ playing_trigger
    /\ media = "trigger"
    /\ pstate = "Playing"

\* C3: a poll that sees Ended while Triggered loads and plays the loop clip
\* and PlaybackState becomes Idle; PlaybackState goes from Triggered to
\* Idle in no other step.
C3_TriggerEndedReturnsToIdle ==
    [][ /\ (Polls /\ pstate = "Ended" /\ playing_trigger) =>
              /\ step'.calls = LoopReload
              /\ media' = "loop"
              /\ pstate' = "Playing"
              /\ ~playing_trigger'
              /\ cpc' = "get"
        /\ (playing_trigger /\ ~playing_trigger') =>
              (Polls /\ pstate = "Ended") ]_vars

C3_Witness ==
    /\ step.op = "poll"
    /\ step.seen = "Ended"
    /\ step.was
    /\ ~playing_trigger
    /\ media = "loop"
    /\ pstate = "Playing"

\* C4: a poll that sees Ended while Idle reloads and plays the loop clip,
\* stays Idle and stays in the loop; and as long as nothing was ever put on
\* the queue, PlaybackState is Idle.
C4_IdleEndedReloadsLoop ==
    /\ [][ (Polls /\ pstate = "Ended" /\ ~playing_trigger) =>
              /\ step'.calls = LoopReload
              /\ media' = "loop"
              /\ pstate' = "Playing"
              /\ ~playing_trigger'
              /\ cpc' = "get" ]_vars
    /\ [](sent = <<>> => ~playing_trigger)

C4_Witness ==
    /\ step.op = "poll"
    /\ step.seen = "Ended"
    /\ ~step.was
    /\ step.calls = LoopReload
    /\ sent = <<>>
    /\ ~playing_trigger
    /\ pstate = "Ended"

\* The controller has left its control loop.
LeftLoop == cpc \in {"exit", "done"}

\* C5: a poll that sees Error, Idle or Triggered, leaves the loop without a
\* player call; the one step the controller then has, and can always take,
\* is stop(); and after the poll PlaybackState never changes, no event is
\* dequeued, and nothing is loaded or played.
C5_ErrorEndsControl ==
    /\ [][ /\ (Polls /\ pstate = "Error") =>
                 /\ cpc' = "exit"
                 /\ step'.calls = <<>>
                 /\ UNCHANGED <<playing_trigger, media, pstate>>
           /\ LeftLoop =>
                 /\ LeftLoop'
                 /\ UNCHANGED <<playing_trigger, received, media>>
                 /\ pstate' # "Playing"
                 /\ Len(queue') >= Len(queue)
                 /\ \A i \in 1..Len(queue) : queue'[i] = queue[i]
                 /\ CtrlStep => /\ cpc = "exit"
                                /\ cpc' = "done"
                                /\ step'.calls = <<"stop">>
                                /\ pstate' = "Stopped" ]_vars
    /\ [](cpc = "exit" => ENABLED CtrlExit)

\* Error seen while Triggered, with an event left on the queue.
C5_Witness ==
    /\ cpc = "done"
    /\ step.calls = <<"stop">>
    /\ pstate = "Stopped"
    /\ playing_trigger
    /\ queue # <<>>

\* C6 as claimed: an event put on the queue while PlaybackState was
\* Triggered never loads the trigger clip, whenever it is dequeued.
C6_ArrivedWhileTriggeredNeverStarts ==
    (GotEvent /\ step.ev.during) => ~LoadsTrigger(step.calls)

\* C6 as amended: an event put on the queue while PlaybackState was
\* Triggered is swallowed exactly if PlaybackState is still Triggered when
\* it is dequeued; dequeued after the return to Idle, it loads and plays
\* the trigger clip.
C6_SwallowedIffDequeuedWhileTriggered ==
    (GotEvent /\ step.ev.during) =>
        /\ step.was => (step.calls = <<>> /\ playing_trigger)
        /\ ~step.was => step.calls = TriggerLoad

C6_Witness ==
    /\ GotEvent
    /\ step.ev.during
    /\ step.was
    /\ step.calls = <<>>
    /\ cpc = "poll"
    /\ pstate = "Ended"

C8_EveryEventConsumed ==
    \A e \in 1..MaxReports :
        (e \in Range(sent)) ~> (e \in Range(received))

\* C8 as amended: every event put on the queue is eventually dequeued
\* unless the controller has left its control loop (the player reported
\* Error).
C8_ConsumedUnlessLoopLeft ==
    \A e \in 1..MaxReports :
        (e \in Range(sent)) ~> (e \in Range(received) \/ LeftLoop)

C8_Witness ==
    /\ Len(sent) >= 2
    /\ received = sent
    /\ ~LeftLoop

\* C9: Triggered with the player at Ended leads to Idle with the loop clip
\* loaded and played by a poll, whether or not anything is on the queue.
C9_EndedLeadsToIdle ==
    (playing_trigger /\ pstate = "Ended") ~>
        (~playing_trigger /\ media = "loop" /\ pstate = "Playing"
            /\ step.op = "poll" /\ step.calls = LoopReload)

\* The return to Idle with the queue empty since the trigger was taken.
C9_Witness ==
    /\ step.op = "poll"
    /\ step.seen = "Ended"
    /\ step.was
    /\ ~playing_trigger
    /\ Len(sent) = 1
    /\ received = sent

\* C10: with no keyboard among the devices, the reader thread returns from
\* discovery and does nothing more, nothing is ever put on the queue,
\* PlaybackState stays Idle, and the controller leaves its loop only for a
\* player error.
C10_NoKeyboardInert ==
    find_keyboard_devices(present) = <<>> =>
        /\ ipc \in {"start", "returned"}
        /\ devices = <<>>
        /\ ready = <<>>
        /\ grabbed = {}
        /\ \A d \in AllDevices : pending[d] = <<>>
        /\ sent = <<>>
        /\ queue = <<>>
        /\ ~playing_trigger
        /\ media # "trigger"
        /\ LeftLoop => pstate \in {"Error", "Stopped"}

C10_Witness ==
    /\ find_keyboard_devices(present) = <<>>
    /\ ipc = "returned"
    /\ step.op = "poll"
    /\ step.seen = "Ended"
    /\ cpc = "get"

----------------------------------------------------------------------------
(* input_reader_thread on its own *)

\* Two more kinds of report: the autorepeat of a held space key (keystate
\* 2), and a press whose scancode has several names, so that keycode is a
\* list (lines 55-58).
SpaceHold == [type |-> "EV_KEY", keycode |-> {"KEY_SPACE"}, keystate |-> 2]
SpaceAliasPress ==
    [type |-> "EV_KEY", keycode |-> {"KEY_SPACE", "KEY_ALIAS"}, keystate |-> 1]

AllReportKinds == ReportKinds \cup {SpaceHold, SpaceAliasPress}

\* The reader thread and the devices, with every kind of report; the
\* controller thread has not taken a step yet.
ReaderNext ==
    \/ \E d \in AllDevices, rep \in AllReportKinds : DeviceReport(d, rep)
    \/ InputReader

ReaderSpec == Init /\ [][ReaderNext]_vars

\* The read of device d raises.
ReadFailOn(d) ==
    /\ ready # <<>>
    /\ Head(ready) = d
    /\ InputReadFail

\* The reader thread's loop when select never raises and only the reads of
\* kbdA may raise (and may raise every time).
FailingNext ==
    \/ \E d \in AllDevices, rep \in ReportKinds : DeviceReport(d, rep)
    \/ InputStart
    \/ InputSelect
    \/ InputDrain
    \/ ReadFailOn("kbdA")

\* The reader thread is scheduled again and again: select returns once a
\* device is readable, and a read returns or raises.
FailingSpec ==
    /\ Init
    /\ [][FailingNext]_vars
    /\ WF_vars(InputStart \/ InputSelect \/ InputDrain \/ ReadFailOn("kbdA"))

\* A device that keeps emitting: one more report that is not a space press,
\* without end, whenever the reader has caught up with it.
DeviceChatter(d) ==
    /\ ipc \notin {"returned", "exited"}
    /\ d \in Range(devices) \ closed
    /\ Len(pending[d]) < MaxBuffered
    /\ pending' = [pending EXCEPT ![d] = Append(@, OtherPress)]
    /\ UNCHANGED <<mainVars, present, nreports, inputVars, queue, sent,
                   received, ctrlVars, playerVars>>

\* The reader thread's loop with devices that keep emitting, when neither
\* select nor a read raises.
StreamNext ==
    \/ \E d \in AllDevices, rep \in {SpacePress, SpaceRelease} :
            DeviceReport(d, rep)
    \/ \E d \in AllDevices : DeviceChatter(d)
    \/ InputStart
    \/ InputSelect
    \/ InputDrain

StreamSpec ==
    /\ Init
    /\ [][StreamNext]_vars
    /\ WF_vars(InputStart \/ InputSelect \/ InputDrain)

----------------------------------------------------------------------------
(* Properties of the reader thread: ReaderSpec, FailingSpec, StreamSpec *)

\* The step reads device d empty.
Drains(d) ==
    /\ ipc = "drain"
    /\ ready # <<>>
    /\ Head(ready) = d
    /\ pending[d] # <<>>
    /\ pending'[d] = <<>>

\* The reports that are presses of the space key.
Presses == {SpacePress, SpaceAliasPress}

PressesIn(reps) == SelectSeq(reps, LAMBDA r : r \in Presses)

\* The events on the queue that came from device d.
FromDevice(q, d) == SelectSeq(q, LAMBDA e : e.dev = d)

\* C14: a drain of a device puts one event on the queue for each space
\* press among the reports read, in their order and each with a timestamp
\* of its own, and nothing for a release, a hold, another key or a report
\* that is not a key report; nothing but a drain puts an event.
C14_OneEventPerSpacePress ==
    [][/\ \A d \in AllDevices :
            Drains(d) =>
                /\ Len(queue') = Len(queue) + Len(PressesIn(pending[d]))
                /\ IsPrefix(queue, queue')
                /\ \A i \in (Len(queue) + 1)..Len(queue') :
                        /\ queue'[i].dev = d
                        /\ \A j \in 1..(i - 1) : queue'[j].ts # queue'[i].ts
                /\ sent' = sent \o Times(SubSeq(queue', Len(queue) + 1,
                                                Len(queue')))
       /\ (sent' # sent \/ Len(queue') > Len(queue))
            => \E d \in AllDevices : Drains(d)]_vars

\* Three reports were read, two of them presses: two events.
C14_Witness ==
    /\ nreports = 3
    /\ \A d \in AllDevices : pending[d] = <<>>
    /\ ipc = "select"
    /\ Len(queue) = 2
    /\ queue[1].dev = queue[2].dev
    /\ queue[1].ts # queue[2].ts

\* A space press is among the reports device d holds unread.
PressPending(d) == PressesIn(pending[d]) # <<>>

\* The step is a read that raises: the reader moves on in r with nothing
\* read.
ReadRaises ==
    /\ ipc = "drain"
    /\ ready' # ready
    /\ pending' = pending

\* C15: a read of kbdA that raises leaves the thread in its loop with the
\* devices it had, and goes on to the devices that follow in r; and however
\* often the reads of kbdA raise, a space press that kbdB holds is
\* eventually put on the queue as an event from kbdB.
C15_ReadFailureIsolated ==
    /\ [][ReadRaises =>
            /\ ready' = Tail(ready)
            /\ ipc' = IF ready' = <<>> THEN "select" ELSE "drain"
            /\ devices' = devices
            /\ closed' = closed
            /\ grabbed' = grabbed
            /\ queue' = queue]_vars
    /\ \A n \in 0..MaxReports :
          (PressPending("kbdB") /\ Len(FromDevice(queue, "kbdB")) = n)
              ~> (Len(FromDevice(queue, "kbdB")) > n)

\* The read of kbdA has raised in this cycle, and kbdB, which holds a space
\* press, is the next device of r.
C15_Witness ==
    /\ rfail = "kbdA"
    /\ ipc = "drain"
    /\ ready = <<"kbdB">>
    /\ PressPending("kbdB")

\* C16: with devices that keep emitting, select's result holds every device
\* that has something to read, each step of the loop over r drains the next
\* of them, putting an event for each space press it held, and the thread
\* waits again only when r is through; so the space presses that either
\* keyboard holds are eventually read and put on the queue.
C16_NoDeviceStarved ==
    /\ [][/\ (ipc = "select" /\ ipc' = "drain") =>
                ready' = SelectSeq(devices, LAMBDA d : pending[d] # <<>>)
          /\ (ipc = "drain" /\ ready' # ready) =>
                /\ Drains(Head(ready))
                /\ Len(FromDevice(queue', Head(ready))) =
                        Len(FromDevice(queue, Head(ready)))
                            + Len(PressesIn(pending[Head(ready)]))
                /\ ready' = Tail(ready)
                /\ (ipc' = "select") <=> (ready' = <<>>)]_vars
    /\ \A d \in {"kbdA", "kbdB"} : PressPending(d) ~> ~PressPending(d)

\* Both keyboards have had a press turned into an event, and both are in r
\* again.
C16_Witness ==
    /\ FromDevice(queue, "kbdA") # <<>>
    /\ FromDevice(queue, "kbdB") # <<>>
    /\ ipc = "drain"
    /\ ready = <<"kbdA", "kbdB">>

\* The keyboards among the devices present.
Keyboards == {d \in present : "KEY_SPACE" \in Capabilities(d)}

\* C17: whichever grabs failed, the thread is in its loop with every
\* keyboard in its list; each select waits on all of them, grabbed or not,
\* and a drain of a keyboard that is not grabbed puts an event for each
\* space press it held.
C17_GrabFailureNotFatal ==
    /\ [](Keyboards # {} /\ ipc # "start" =>
            /\ ipc \in {"select", "drain", "exited"}
            /\ Range(devices) = Keyboards
            /\ (ipc # "exited" => closed = {}))
    /\ [][/\ (ipc = "select" /\ ipc' = "drain") =>
                Range(ready') = {d \in Keyboards : pending[d] # <<>>}
          /\ \A d \in AllDevices \ grabbed :
                Drains(d) =>
                    Len(FromDevice(queue', d)) =
                        Len(FromDevice(queue, d)) + Len(PressesIn(pending[d]))
         ]_vars

\* The grab of kbdA failed, that of kbdB did not, and a press on kbdA has
\* become an event.
C17_Witness ==
    /\ grabbed = {"kbdB"}
    /\ ipc \in {"select", "drain"}
    /\ FromDevice(queue, "kbdA") # <<>>

\* C18: when the thread has left its loop, the handle of every device of its
\* list is closed, whether or not the device had been grabbed, and no grab
\* is left.
C18_ExitClosesEveryDevice ==
    ipc = "exited" =>
        /\ closed = Range(devices)
        /\ grabbed = {}

----------------------------------------------------------------------------
(* Properties of the whole process: MainSpec, MainFairSpec *)

\* C11: once the player is in the Error state, the process eventually exits
\* with a non-zero status.
C11_ErrorLeadsToNonZeroExit ==
    (pstate = "Error") ~> (mpc = "exited" /\ exitcode # 0)

C13_BannerFirst ==
    mpc # "start" =>
        /\ out # <<>>
        /\ Head(out) = Banner
        /\ \A i \in 2..Len(out) : out[i] # Banner

\* The exit for a missing ~/movies: the banner, the warning, the error.
C13_Witness ==
    /\ mpc = "exited"
    /\ ~clips.looping
    /\ exitcode = 1
    /\ Len(out) = 3
    /\ out[1] = Banner
    /\ out[2] = "[Video] Warning: Movies directory not found"

\* C19: once the workers are started, the player is called by the controller
\* thread only: main makes no call, and a step that changes the media or
\* sets the player's state by a call is a step of the controller that
\* leaves the reader thread and main where they are.
C19_OnlyControllerCallsPlayer ==
    [][cpc # "unstarted" =>
        /\ mainCalls' = mainCalls
        /\ (\/ media' # media
            \/ (pstate' # pstate
                  /\ pstate' \in {"Playing", "Stopped", "Released"}))
              => (cpc' # cpc /\ ipc' = ipc /\ mpc' = mpc)]_vars

----------------------------------------------------------------------------
(* Properties of the controller's view of the player: Spec *)

\* C20: whenever the controller is about to poll the player's state, the
\* clip last loaded is the trigger clip exactly if playing_trigger is set,
\* and the looping clip exactly if it is not.
C20_LoadedClipMatchesFlag ==
    cpc = "poll" =>
        /\ media = "trigger" <=> playing_trigger
        /\ media = "loop" <=> ~playing_trigger

\* The poll that is about to see the end of the trigger clip.
C20_Witness ==
    /\ cpc = "poll"
    /\ playing_trigger
    /\ media = "trigger"
    /\ pstate = "Ended"

====
